---- MODULE Spec2Model ----
(***************************************************************************)
(* Model of the crossword grid-filling engine of src/src/domain.py:        *)
(* the Pattern Codec (count_letters, get_regex, gen_patterns), the         *)
(* Dictionary Encoding (available_wordseq and the regular-expression       *)
(* search on it), the Grid State (_get_entirepattern, _get_subpatterns,    *)
(* place_word, refresh_structures), the Location bookkeeping and the fill  *)
(* loop (place_first_word, next_selection, fillout).                       *)
(*                                                                         *)
(* Conventions.  Strings of the program are sequences of one-character     *)
(* strings.  Python positions are 0-based and are kept 0-based in every    *)
(* value of the model; a sequence s is read at Python position i with      *)
(* s[i + 1].  Python's None in a Word's placement fields is the number     *)
(* None (-1).  A raised exception ends the run: pc = "raised" and err      *)
(* names the exception.                                                    *)
(***************************************************************************)
EXTENDS Integers, Sequences, FiniteSets, TLC

(***************************************************************************)
(* Bounds of the model.                                                    *)
(***************************************************************************)
\* grid_size given to Puzzle.__init__
GridSize == 5
\* longest word list given to Puzzle.__init__ before a fillout run
MaxWords == 3
\* longest word list given to Puzzle.__init__ before direct place_word calls
MaxPlaceWords == 2
\* longest strip given to find_matches in the properties of the Dictionary Index
MaxStrip == 3
\* longest entire pattern given to the classification of a line on its own
MaxLine == 6

\* longest strip given to count_letters, get_regex and gen_patterns on their own
MaxCodecStrip == 6
\* longest word searched with the expression of a strip
MaxCodecWord == 4
\* largest pos given to gen_patterns on its own
MaxCodecPos == 1
\* largest min_size given to gen_patterns on its own
MaxCodecMinSize == 3
\* length of the strips whose patterns are generated again after every placement
MaxPureStrip == 4
\* length of the word lists of the fill runs with short words
MaxShortWords == 4

\* most words placed by place_word before such a fill run
MaxPrefill == 2

\* The words the lists are drawn from (raw text, before canonicalisation).
Pool ==
  << <<"A", "B", "A">>,
     <<"b", "a">>,
     <<"A", "B", "A", "B", "A", "B">> >>

\* The words the lists of the direct place_word calls are drawn from: two words
\* of one length, a word as long as the grid is wide, a longer one.
PlacePool ==
  << <<"b", "a">>,
     <<"A", "b">>,
     <<"A", "B", "A", "B", "A">>,
     <<"A", "B", "A", "B", "A", "B">> >>

(***************************************************************************)
(* Puzzle state                                                            *)
(***************************************************************************)
VARIABLES
  grid_size,          \* the side of the square grid
  words,              \* the (word, clue) list given to Puzzle.__init__ (the texts)
  available_words,    \* list of Word, longest first; placement fields inside
  available_wordseq,  \* the Dictionary Encoding
  min_size_word,
  placed_words,       \* Location -> list of indexes into available_words
  nb_placed_words,
  grid,               \* grid[row][col]
  complete_indexes,
  empty_indexes,
  currently_blocked,  \* fillout's set
  pc,                 \* "new", "loop", "stopped" (fillout returned), "raised"
  err,                \* the exception raised, "" when none
  stop,               \* next_selection's stop code (-2, -1, -3), 0 when none
  last                \* the last operation and its arguments

vars == <<grid_size, words, available_words, available_wordseq, min_size_word, placed_words,
          nb_placed_words, grid, complete_indexes, empty_indexes, currently_blocked,
          pc, err, stop, last>>

None == -1

empty_marker == "-"
filled_marker == "#"

Digit == <<"0", "1", "2", "3", "4", "5", "6", "7", "8", "9">>

\* The characters the regular-expression class \w matches, among those the model
\* uses: letters and digits, not the markers nor the brackets of the index tags.
IsWordChar(c) == c \notin {"-", "#", "[", "]"}

IsDigit(c) == \E d \in 1..10 : Digit[d] = c

DigitVal(c) == (CHOOSE d \in 1..10 : Digit[d] = c) - 1

\* str.upper() on one character
UpperChar(c) ==
  CASE c = "a" -> "A"
    [] c = "b" -> "B"
    [] OTHER -> c

Upper(w) == [k \in 1..Len(w) |-> UpperChar(w[k])]

\* str(i) for a non-negative integer below 100
IntToStr(i) == IF i < 10 THEN <<Digit[i + 1]>> ELSE <<Digit[(i \div 10) + 1], Digit[(i % 10) + 1]>>

RECURSIVE StrToInt(_)
\* int(s) for a string of digits
StrToInt(s) ==
  IF Len(s) = 0 THEN 0
  ELSE 10 * StrToInt(SubSeq(s, 1, Len(s) - 1)) + DigitVal(s[Len(s)])

\* s[a:b] of Python for 0 <= a, b (b beyond the end is the end)
Slice(s, a, b) == SubSeq(s, a + 1, IF b > Len(s) THEN Len(s) ELSE b)

(***************************************************************************)
(* Pattern Codec                                                           *)
(***************************************************************************)

\* the positions re.finditer(r'\w', s) reports, in increasing order
LetterPositions(s) == {i \in 0..(Len(s) - 1) : IsWordChar(s[i + 1])}

SetMin(S) == CHOOSE x \in S : \A y \in S : x <= y
SetMax(S) == CHOOSE x \in S : \A y \in S : x >= y

\* A variant of count_letters that raises nothing: a strip without a letter
\* counts 0 letters.
count_lettersNoError(s) ==
  LET letters_pos == LetterPositions(s)
  IN IF letters_pos = {}
     THEN [raised |-> FALSE, nb |-> 0, first |-> None, last |-> None]
     ELSE [raised |-> FALSE, nb |-> Cardinality(letters_pos),
           first |-> SetMin(letters_pos), last |-> SetMax(letters_pos)]

\* count_letters: (nb_chars, firstchar_pos, lastchar_pos), or ValueError
count_letters(s) ==
  LET letters_pos == LetterPositions(s)
  IN IF letters_pos = {}
     THEN [raised |-> TRUE, nb |-> 0, first |-> None, last |-> None]
     ELSE [raised |-> FALSE, nb |-> Cardinality(letters_pos),
           first |-> SetMin(letters_pos), last |-> SetMax(letters_pos)]

\* The loop of get_regex over letter_seq[firstc_pos .. lastc_pos]: a run of n
\* empty markers before a letter is the token \w{n}, written here as n "?".
RECURSIVE RegexCore(_, _, _)
RegexCore(letter_seq, i, lastc_pos) ==
  IF i > lastc_pos THEN <<>>
  ELSE <<(IF letter_seq[i + 1] = empty_marker THEN "?" ELSE letter_seq[i + 1])>>
       \o RegexCore(letter_seq, i + 1, lastc_pos)

\* A variant of get_regex whose optional characters before the first letter and
\* after the last are not bounded by the cells of the strip at either side.
get_regexUnbounded(letter_seq) ==
  LET c == count_letters(letter_seq)
  IN IF c.raised THEN [raised |-> TRUE, lead |-> 0, core |-> <<>>, trail |-> 0]
     ELSE [raised |-> FALSE,
           lead |-> Len(letter_seq),
           core |-> RegexCore(letter_seq, c.first, c.last),
           trail |-> Len(letter_seq)]

\* get_regex: the expression \[(\d+)\](\w{0,lead} core \w{0,trail})\[(\d+)\],
\* as the record of its three parts; ValueError for a strip without a letter.
get_regex(letter_seq) ==
  LET c == count_letters(letter_seq)
  IN IF c.raised THEN [raised |-> TRUE, lead |-> 0, core |-> <<>>, trail |-> 0]
     ELSE [raised |-> FALSE,
           lead |-> c.first,
           core |-> RegexCore(letter_seq, c.first, c.last),
           trail |-> Len(letter_seq) - 1 - c.last]

RaiseItem == [raised |-> TRUE, regex |-> [raised |-> TRUE, lead |-> 0, core |-> <<>>, trail |-> 0], pos |-> None]

\* A generator's output up to a raise: nothing is produced after the item that raises.
Chain(a, b) == IF a # <<>> /\ a[Len(a)].raised THEN a ELSE a \o b

\* A variant of gen_patterns that reads the puzzle: the offsets are counted from
\* the number of placed words, and strips shorter than the shortest word of the
\* puzzle yield nothing.
gen_patternsOfPuzzle(letter_seq, pos, min_size) ==
  LET c == count_letters(letter_seq)
  IN IF c.raised THEN <<RaiseItem>>
     ELSE IF Len(letter_seq) < min_size_word THEN <<>>
     ELSE <<[raised |-> FALSE, regex |-> get_regex(letter_seq), pos |-> pos + nb_placed_words]>>

RECURSIVE gen_patterns(_, _, _)
\* gen_patterns: the items the generator yields, in order; an item with
\* raised = TRUE is the ValueError of count_letters raised at that point.
gen_patterns(letter_seq, pos, min_size) ==
  LET c == count_letters(letter_seq)
  IN IF c.raised THEN <<RaiseItem>>
     ELSE IF Len(letter_seq) < min_size THEN <<>>
     ELSE LET head == <<[raised |-> FALSE, regex |-> get_regex(letter_seq), pos |-> pos]>>
              right_seq == Slice(letter_seq, 0, c.last - 1)
              left_seq == Slice(letter_seq, c.first + 2, Len(letter_seq))
              right == IF c.nb > 1 /\ Len(right_seq) > 1
                       THEN gen_patterns(right_seq, pos, min_size) ELSE <<>>
              left == IF c.nb > 1 /\ Len(left_seq) > 1
                      THEN gen_patterns(left_seq, pos + c.first + 2, min_size) ELSE <<>>
          IN Chain(Chain(head, right), left)

(***************************************************************************)
(* Dictionary Encoding and the search of an expression in it               *)
(***************************************************************************)

\* f"[{i}]{canonical}"
Segment(i, canonical) == <<"[">> \o IntToStr(i) \o <<"]">> \o canonical

RECURSIVE JoinSegments(_, _)
\* ''.join([f"[{i}]{w.canonical}" for i, w in enumerate(words)]), from index i on
JoinSegments(ws, i) ==
  IF i >= Len(ws) THEN <<>>
  ELSE Segment(i, ws[i + 1].canonical) \o JoinSegments(ws, i + 1)

\* the first position >= i of text that holds no digit (len(text) if none)
DigitsEnd(text, i) ==
  SetMin({j \in i..Len(text) : j = Len(text) \/ ~IsDigit(text[j + 1])})

\* the first position >= i of text that holds no \w character (len(text) if none)
WordEnd(text, i) ==
  SetMin({j \in i..Len(text) : j = Len(text) \/ ~IsWordChar(text[j + 1])})

\* \[(\d+)\] matched at position p of text: the position after the tag, or None
TagEnd(text, p) ==
  IF p < Len(text) /\ text[p + 1] = "["
  THEN LET r == DigitsEnd(text, p + 1)
       IN IF r > p + 1 /\ r < Len(text) /\ text[r + 1] = "]" THEN r + 1 ELSE None
  ELSE None

\* the group (\w{0,lead} core \w{0,trail}) matched against the whole of w
BodyMatches(regex, w) ==
  \E a \in 0..regex.lead : \E b \in 0..regex.trail :
    /\ Len(w) = a + Len(regex.core) + b
    /\ \A k \in 1..Len(regex.core) :
         regex.core[k] = "?" \/ regex.core[k] = w[a + k]

\* The whole expression matched at position p of text.  \w matches neither
\* bracket, so the group is the text between the tag at p and the next
\* character that is not a \w character, where the closing tag must match.
MatchesAt(regex, text, p) ==
  LET b == TagEnd(text, p)
  IN /\ b # None
     /\ LET e == WordEnd(text, b)
        IN /\ BodyMatches(regex, Slice(text, b, e))
           /\ TagEnd(text, e) # None

NoMatch == [raised |-> FALSE, found |-> FALSE, word_n |-> None, matched_word |-> <<>>]

\* re.search(regex, text): the leftmost match, as (int(group(1)), group(2))
re_search(regex, text) ==
  LET starts == {p \in 0..(Len(text) - 1) : MatchesAt(regex, text, p)}
  IN IF starts = {} THEN NoMatch
     ELSE LET p == SetMin(starts)
              b == TagEnd(text, p)
          IN [raised |-> FALSE, found |-> TRUE,
              word_n |-> StrToInt(Slice(text, p + 1, b - 1)),
              matched_word |-> Slice(text, b, WordEnd(text, b))]

\* text.find(sub, start): the first position >= start where sub occurs, or -1
Find(text, sub, start) ==
  LET hits == {i \in start..(Len(text) - Len(sub)) :
                 \A k \in 1..Len(sub) : text[i + k] = sub[k]}
  IN IF hits = {} THEN -1 ELSE SetMin(hits)

\* A variant of RemoveSegment that cuts from the tag to the end of the text
\* (e_index always len): the segments after the placed word are lost.
RemoveToEnd(wordseq, word_index) ==
  Slice(wordseq, 0, Find(wordseq, <<"[">> \o IntToStr(word_index) \o <<"]">>, 0))

\* A variant of RemoveSegment that leaves the text as it is.
RemoveNothing(wordseq, word_index) == wordseq

\* refresh_structures, the available_wordseq part: the text with the segment of
\* word_index cut out, from its tag to the next "[" (or to the end).
\* Called only when the tag is in the text (str.index raises otherwise).
RemoveSegment(wordseq, word_index) ==
  LET s_index == Find(wordseq, <<"[">> \o IntToStr(word_index) \o <<"]">>, 0)
      f == Find(wordseq, <<"[">>, s_index + 1)
      e_index == IF f = -1 THEN Len(wordseq) ELSE f
  IN Slice(wordseq, 0, s_index) \o Slice(wordseq, e_index, Len(wordseq))

HasTag(wordseq, word_index) ==
  Find(wordseq, <<"[">> \o IntToStr(word_index) \o <<"]">>, 0) # -1

(***************************************************************************)
(* Words and Locations                                                     *)
(***************************************************************************)

Location(d, i) == [direction |-> d, index |-> i]

Locations == {Location(d, i) : d \in {0, 1}, i \in 0..(grid_size - 1)}

\* Word(word=w): __post_init__ sets canonical and size; no placement yet
Word(w) ==
  [word |-> w, canonical |-> Upper(w), size |-> Len(Upper(w)),
   row |-> None, col |-> None, direction |-> None]

\* Word.set_position
set_position(w, location, pos) ==
  IF location.direction = 1
  THEN [w EXCEPT !.direction = location.direction, !.row = pos, !.col = location.index]
  ELSE [w EXCEPT !.direction = location.direction, !.row = location.index, !.col = pos]

\* A variant of span without the margin cells.
spanNoPadding(w, padding) ==
  LET at == IF w.direction = 0 THEN w.col ELSE w.row
  IN at..(at + w.size - 1)

\* Word.span(padding), of a placed word, as the set of its list's members
span(w, padding) ==
  LET at == IF w.direction = 0 THEN w.col ELSE w.row
      start == at - (IF padding /\ at > 0 THEN 1 ELSE 0)
      end == at + w.size - 1 + (IF padding THEN 1 ELSE 0)
  IN start..end

\* Word.letter_at: the letter of w at a cell, or None
letter_at(w, cell_row, cell_col) ==
  IF w.direction = 0 /\ cell_row = w.row /\ w.col <= cell_col /\ cell_col < w.col + w.size
  THEN w.canonical[cell_col - w.col + 1]
  ELSE IF w.direction = 1 /\ cell_col = w.col /\ w.row <= cell_row /\ cell_row < w.row + w.size
  THEN w.canonical[cell_row - w.row + 1]
  ELSE None

\* the word lists given to the constructor
RECURSIVE ListsOfLen(_, _)
ListsOfLen(pool, n) ==
  IF n = 0 THEN {<<>>}
  ELSE {Append(l, pool[k]) : l \in ListsOfLen(pool, n - 1), k \in 1..Len(pool)}

WordLists == UNION {ListsOfLen(Pool, n) : n \in 1..MaxWords}

RECURSIVE MinLen(_, _)
\* Puzzle.__init__: min_size_word, from grid_size down over every input word
MinLen(ws, m) ==
  IF ws = <<>> THEN m
  ELSE MinLen(Tail(ws), IF Len(Head(ws)) < m THEN Len(Head(ws)) ELSE m)

\* Puzzle.__init__: the words that fit the grid, as Words, in input order
Eligible(ws) ==
  LET Fits(w) == Len(w) <= grid_size
      kept == SelectSeq(ws, Fits)
  IN [k \in 1..Len(kept) |-> Word(kept[k])]

\* sorted(l, key=LenOf, reverse=True) and list.sort: stable, so an item comes
\* after every longer item and after the equally long items before it in l.
\* lens[k] is the key of l[k].
SortByLenDesc(l, lens) ==
  LET Rank(k) == Cardinality({j \in 1..Len(l) : lens[j] > lens[k]})
                 + Cardinality({j \in 1..k : lens[j] = lens[k]})
  IN [p \in 1..Len(l) |-> l[CHOOSE k \in 1..Len(l) : Rank(k) = p]]

\* A variant of SortWords that keeps the input order.
SortWordsInputOrder(l) == l

\* self.available_words.sort(key=lambda x: len(x.word), reverse=True)
SortWords(l) == SortByLenDesc(l, [k \in 1..Len(l) |-> Len(l[k].word)])

(***************************************************************************)
(* Grid State: patterns                                                    *)
(***************************************************************************)

\* A variant of Cells that reports the padded cells only: the spans of the words
\* of the neighbouring lines are lost.
CellsOfOwnLineOnly(aw, idxs, padding) ==
  IF padding THEN UNION {span(aw[idxs[k] + 1], padding) : k \in 1..Len(idxs)} ELSE {}

\* the cells of the words of aw listed in idxs, padded or not
Cells(aw, idxs, padding) ==
  UNION {span(aw[idxs[k] + 1], padding) : k \in 1..Len(idxs)}

\* A variant of _get_entirepattern in which the spans of the words of the
\* neighbouring lines block a cell whether it holds a letter or not.
EntirePatternSpansOverLetters(g, pw, aw, loc) ==
  LET pattern == [c \in 0..(grid_size - 1) |->
                    IF loc.direction = 0 THEN g[loc.index][c] ELSE g[c][loc.index]]
      block_cells == Cells(aw, pw[loc], TRUE)
      left_spans == IF loc.index > 0
                    THEN Cells(aw, pw[Location(loc.direction, loc.index - 1)], FALSE)
                    ELSE {}
      right_spans == IF loc.index < grid_size - 1
                     THEN Cells(aw, pw[Location(loc.direction, loc.index + 1)], FALSE)
                     ELSE {}
      Beside(cell_i, index) == IF loc.direction = 1 THEN g[cell_i][index] ELSE g[index][cell_i]
      Mark(cell_i) ==
        IF cell_i \in block_cells \/ cell_i \in left_spans \/ cell_i \in right_spans
        THEN filled_marker
        ELSE IF pattern[cell_i] = empty_marker
        THEN IF loc.index >= 2 /\ Beside(cell_i, loc.index - 1) # empty_marker
             THEN filled_marker
             ELSE IF loc.index <= grid_size - 3 /\ Beside(cell_i, loc.index + 1) # empty_marker
             THEN filled_marker
             ELSE pattern[cell_i]
        ELSE pattern[cell_i]
  IN [k \in 1..grid_size |-> Mark(k - 1)]

\* _get_entirepattern, on the grid g, the placement index pw and the words aw
_get_entirepattern(g, pw, aw, loc) ==
  LET pattern == [c \in 0..(grid_size - 1) |->
                    IF loc.direction = 0 THEN g[loc.index][c] ELSE g[c][loc.index]]
      block_cells == Cells(aw, pw[loc], TRUE)
      left_spans == IF loc.index > 0
                    THEN Cells(aw, pw[Location(loc.direction, loc.index - 1)], FALSE)
                    ELSE {}
      right_spans == IF loc.index < grid_size - 1
                     THEN Cells(aw, pw[Location(loc.direction, loc.index + 1)], FALSE)
                     ELSE {}
      \* the cell of the neighbouring line at the same offset
      Beside(cell_i, index) == IF loc.direction = 1 THEN g[cell_i][index] ELSE g[index][cell_i]
      Mark(cell_i) ==
        IF cell_i \in block_cells THEN filled_marker
        ELSE IF pattern[cell_i] = empty_marker
        THEN IF cell_i \in left_spans \/ cell_i \in right_spans
             THEN filled_marker
             ELSE IF loc.index >= 2 /\ Beside(cell_i, loc.index - 1) # empty_marker
             THEN filled_marker
             ELSE IF loc.index <= grid_size - 3 /\ Beside(cell_i, loc.index + 1) # empty_marker
             THEN filled_marker
             ELSE pattern[cell_i]
        ELSE pattern[cell_i]
  IN [k \in 1..grid_size |-> Mark(k - 1)]

\* str.index(sub): the first position where sub occurs (sub occurs in text)
IndexOf(text, sub) == Find(text, sub, 0)

\* entirepattern.split(filled_marker), without the empty strings: the maximal
\* runs of cells that are not the filled marker, left to right
SplitFilled(text) ==
  LET starts == {i \in 0..(Len(text) - 1) :
                   /\ text[i + 1] # filled_marker
                   /\ (i = 0 \/ text[i] = filled_marker)}
      EndOf(i) == SetMin({j \in i..Len(text) : j = Len(text) \/ text[j + 1] = filled_marker})
      RECURSIVE From(_)
      From(i) ==
        IF i >= Len(text) THEN <<>>
        ELSE IF i \in starts THEN <<Slice(text, i, EndOf(i))>> \o From(EndOf(i))
        ELSE From(i + 1)
  IN From(0)

\* _get_subpatterns, from the entire pattern on: the runs of at least 2 cells,
\* each with the position entirepattern.index reports for its text, longest first
SubpatternsOf(entirepattern) ==
  LET Long(s) == Len(s) >= 2
      kept == SelectSeq(SplitFilled(entirepattern), Long)
      letter_sequences == [k \in 1..Len(kept) |->
                             [s |-> kept[k], pos |-> IndexOf(entirepattern, kept[k])]]
  IN SortByLenDesc(letter_sequences, [k \in 1..Len(kept) |-> Len(kept[k])])

\* _get_subpatterns(loc)
_get_subpatterns(g, pw, aw, loc) == SubpatternsOf(_get_entirepattern(g, pw, aw, loc))

\* _is_blocked: no sub-pattern holds a letter
_is_blocked(subpatterns) ==
  \A k \in 1..Len(subpatterns) :
    \A i \in 1..Len(subpatterns[k].s) : subpatterns[k].s[i] = empty_marker

\* _is_complete: every sub-pattern is shorter than the shortest word
_is_complete(subpatterns, min_size) ==
  \A k \in 1..Len(subpatterns) : Len(subpatterns[k].s) < min_size

(***************************************************************************)
(* Grid State: placement                                                   *)
(***************************************************************************)

\* A variant of WriteWord that writes the word from the start of the line.
WriteWordFromStart(g, word, loc, pos) ==
  [r \in 0..(grid_size - 1) |-> [c \in 0..(grid_size - 1) |->
     IF loc.direction = 0
     THEN IF r = loc.index /\ c < word.size THEN word.canonical[c + 1] ELSE g[r][c]
     ELSE IF c = loc.index /\ r < word.size THEN word.canonical[r + 1] ELSE g[r][c]]]

\* refresh_structures, the grid part: the letters of the positioned word written
\* over the cells pos .. pos + size - 1 of the line loc
WriteWord(g, word, loc, pos) ==
  [r \in 0..(grid_size - 1) |-> [c \in 0..(grid_size - 1) |->
     IF loc.direction = 0
     THEN IF r = loc.index /\ pos <= c /\ c < pos + word.size
          THEN word.canonical[c - pos + 1] ELSE g[r][c]
     ELSE IF c = loc.index /\ pos <= r /\ r < pos + word.size
          THEN word.canonical[r - pos + 1] ELSE g[r][c]]]

\* A variant of RefreshComplete that rebuilds the set from the three lines it
\* looks at, without the lines that were in it.
RefreshCompleteForgets(g, pw, aw, loc) ==
  {l \in {loc} \cup {Location(loc.direction, i) :
                       i \in {loc.index - 1, loc.index + 1} \cap (0..(grid_size - 1))} :
     _is_complete(_get_subpatterns(g, pw, aw, l), min_size_word)}

\* A variant of RefreshComplete that looks at the line of the word only.
RefreshCompleteOwnLineOnly(g, pw, aw, loc) ==
  complete_indexes
  \cup {l \in {loc} : _is_complete(_get_subpatterns(g, pw, aw, l), min_size_word)}

\* refresh_structures, the complete_indexes part: loc, then the line before it,
\* then the line after it, each added when its sub-patterns are complete
RefreshComplete(g, pw, aw, loc) ==
  LET near == {loc}
              \cup (IF loc.index > 0 THEN {Location(loc.direction, loc.index - 1)} ELSE {})
              \cup (IF loc.index < grid_size - 1
                    THEN {Location(loc.direction, loc.index + 1)} ELSE {})
  IN complete_indexes
     \cup {l \in near : _is_complete(_get_subpatterns(g, pw, aw, l), min_size_word)}

\* A variant of RefreshEmpty that takes the padded span of the word.
RefreshEmptyPadded(word, loc) ==
  empty_indexes \ {Location(1 - loc.direction, i) : i \in span(word, TRUE)}

\* refresh_structures, the empty_indexes part
RefreshEmpty(word, loc) ==
  empty_indexes \ {Location(1 - loc.direction, i) : i \in span(word, FALSE)}

\* place_word on the current state: the values of the fields it leaves.  str.index
\* raises ValueError when the tag of word_index is no longer in available_wordseq;
\* the word is then positioned, recorded, counted and written in the grid already.
place_word(word_index, loc, pos) ==
  LET word == set_position(available_words[word_index + 1], loc, pos)
      aw == [available_words EXCEPT ![word_index + 1] = word]
      pw == [placed_words EXCEPT ![loc] = Append(@, word_index)]
      g == WriteWord(grid, word, loc, pos)
      ok == HasTag(available_wordseq, word_index)
  IN [raised |-> ~ok,
      available_words |-> aw,
      placed_words |-> pw,
      nb_placed_words |-> nb_placed_words + 1,
      grid |-> g,
      available_wordseq |-> IF ok THEN RemoveSegment(available_wordseq, word_index)
                            ELSE available_wordseq,
      empty_indexes |-> IF ok THEN RefreshEmpty(word, loc) ELSE empty_indexes,
      complete_indexes |-> IF ok THEN RefreshComplete(g, pw, aw, loc) ELSE complete_indexes]

\* the assignment of place_word's result to the puzzle's fields
Placed(p) ==
  /\ available_words' = p.available_words
  /\ placed_words' = p.placed_words
  /\ nb_placed_words' = p.nb_placed_words
  /\ grid' = p.grid
  /\ available_wordseq' = p.available_wordseq
  /\ empty_indexes' = p.empty_indexes
  /\ complete_indexes' = p.complete_indexes

NoLoc == Location(None, None)

Op(op, loc, word_index, pos) == [op |-> op, loc |-> loc, word_index |-> word_index, pos |-> pos]

(***************************************************************************)
(* Dictionary Index: find_matches                                          *)
(***************************************************************************)

RaisedMatch == [raised |-> TRUE, found |-> FALSE, word_n |-> None, matched_word |-> <<>>]

RECURSIVE FirstHit(_, _, _)
\* the loop of find_matches over the generator's items, from item k on
FirstHit(items, k, wordseq) ==
  IF k > Len(items) THEN NoMatch
  ELSE IF items[k].raised THEN RaisedMatch
  ELSE LET match == re_search(items[k].regex, wordseq)
       IN IF match.found THEN match ELSE FirstHit(items, k + 1, wordseq)

\* find_matches: the first hit of the strip's expressions in wordseq, no hit, or
\* the ValueError of the generator.  The offsets the generator yields are not
\* returned.
find_matches(letter_seq, wordseq, min_size) ==
  FirstHit(gen_patterns(letter_seq, 0, min_size), 1, wordseq)

(***************************************************************************)
(* Construction                                                            *)
(***************************************************************************)

\* Puzzle.__init__(grid_size, words)
Construct(n, ws) ==
  /\ grid_size = n
  /\ words = ws
  /\ available_words = SortWords(Eligible(ws))
  /\ available_wordseq = JoinSegments(SortWords(Eligible(ws)), 0)
  /\ min_size_word = MinLen(ws, grid_size)
  /\ placed_words = [l \in Locations |-> <<>>]
  /\ nb_placed_words = 0
  /\ grid = [r \in 0..(grid_size - 1) |-> [c \in 0..(grid_size - 1) |-> empty_marker]]
  /\ complete_indexes = {}
  /\ empty_indexes = Locations
  /\ currently_blocked = {}
  /\ err = ""
  /\ stop = 0
  /\ last = Op("init", NoLoc, None, None)

\* a puzzle on which fillout is about to run
Init == \E ws \in WordLists : Construct(GridSize, ws) /\ pc = "new"

(***************************************************************************)
(* Placement Engine: the seed                                              *)
(***************************************************************************)

\* A variant of SeedPlace in which the offset is drawn anywhere on the line.
SeedPlaceAnyOffset ==
  /\ pc = "new"
  /\ nb_placed_words = 0
  /\ \E word_index \in 0..4 :
       /\ word_index < Len(available_words)
       /\ \E loc \in Locations :
            \E pos \in 0..(grid_size - 1) :
              /\ \E p \in {place_word(word_index, loc, pos)} : Placed(p)
              /\ last' = Op("seed", loc, word_index, pos)
  /\ pc' = "loop"
  /\ currently_blocked' = {}
  /\ UNCHANGED <<grid_size, words, min_size_word, err, stop>>

\* fillout's call place_first_word(): the puzzle has no placed word, the word is
\* one of the indexes 0..4, the line and the offset are drawn so that it fits.
SeedPlace ==
  /\ pc = "new"
  /\ nb_placed_words = 0
  /\ \E word_index \in 0..4 :
       /\ word_index < Len(available_words)
       /\ \E loc \in Locations :
            \E pos \in 0..(grid_size - available_words[word_index + 1].size) :
              /\ \E p \in {place_word(word_index, loc, pos)} : Placed(p)
              /\ last' = Op("seed", loc, word_index, pos)
  /\ pc' = "loop"
  /\ currently_blocked' = {}
  /\ UNCHANGED <<grid_size, words, min_size_word, err, stop>>

\* place_first_word(): the index drawn in 0..4 is not an index of available_words
SeedRaise ==
  /\ pc = "new"
  /\ nb_placed_words = 0
  /\ \E word_index \in 0..4 :
       /\ word_index >= Len(available_words)
       /\ last' = Op("raise", NoLoc, word_index, None)
  /\ pc' = "raised"
  /\ err' = "IndexError"
  /\ UNCHANGED <<grid_size, words, available_words, available_wordseq, min_size_word, placed_words,
                 nb_placed_words, grid, complete_indexes, empty_indexes,
                 currently_blocked, stop>>

(***************************************************************************)
(* Placement Engine: the fill loop                                         *)
(***************************************************************************)

\* A variant of available_choices that keeps the lines of empty_indexes.
AvailableWithEmpty == Locations \ complete_indexes

\* next_selection: the lines that are neither complete nor empty
available_choices == Locations \ (complete_indexes \cup empty_indexes)

\* A variant of next_selection that compares the available lines with the
\* blocked ones before it looks whether there is any.
NextSelectionBlockedFirst(blocked) ==
  IF nb_placed_words = Len(available_words) THEN {[code |-> -2, loc |-> NoLoc]}
  ELSE IF available_choices = blocked THEN {[code |-> -3, loc |-> NoLoc]}
  ELSE IF available_choices = {} THEN {[code |-> -1, loc |-> NoLoc]}
  ELSE {[code |-> 0, loc |-> l] : l \in available_choices}

\* next_selection: the values it can return, a stop code or a drawn Location
next_selection(blocked) ==
  IF nb_placed_words = Len(available_words) THEN {[code |-> -2, loc |-> NoLoc]}
  ELSE IF available_choices = {} THEN {[code |-> -1, loc |-> NoLoc]}
  ELSE IF available_choices = blocked THEN {[code |-> -3, loc |-> NoLoc]}
  ELSE {[code |-> 0, loc |-> l] : l \in available_choices}

\* the sub-patterns of the selected line as fillout reads them: the Complete or
\* the Blocked sentinel, or the list
Classify(letter_seqs) ==
  IF _is_complete(letter_seqs, min_size_word) THEN "Complete"
  ELSE IF _is_blocked(letter_seqs) THEN "Blocked"
  ELSE "Open"

RECURSIVE TrySeqs(_, _)
\* fillout's loop over the sub-patterns, from the k-th on: the first match with
\* the position of its sub-pattern, no match, or the ValueError
TrySeqs(letter_seqs, k) ==
  IF k > Len(letter_seqs) THEN [match |-> NoMatch, pos |-> None]
  ELSE LET match == find_matches(letter_seqs[k].s, available_wordseq, min_size_word)
       IN IF match.raised \/ match.found
          THEN [match |-> match, pos |-> letter_seqs[k].pos]
          ELSE TrySeqs(letter_seqs, k + 1)

Subpatterns(loc) == _get_subpatterns(grid, placed_words, available_words, loc)

\* an iteration in which next_selection reports a stop condition
FilloutStop ==
  /\ pc = "loop"
  /\ \E selection \in next_selection(currently_blocked) :
       /\ selection.code < 0
       /\ stop' = selection.code
  /\ pc' = "stopped"
  /\ last' = Op("stop", NoLoc, None, None)
  /\ UNCHANGED <<grid_size, words, available_words, available_wordseq, min_size_word, placed_words,
                 nb_placed_words, grid, complete_indexes, empty_indexes,
                 currently_blocked, err>>

\* A variant of Attempt in which a line without a match is left as it is, and
\* recorded as blocked.
AttemptSkipsUnmatched(loc) ==
  LET letter_seqs == Subpatterns(loc)
      kind == Classify(letter_seqs)
      try == TrySeqs(letter_seqs, 1)
  IN IF kind = "Blocked" THEN Op("blocked", loc, None, None)
     ELSE IF kind = "Complete" THEN Op("complete", loc, None, None)
     ELSE IF try.match.raised THEN Op("raise", loc, None, None)
     ELSE IF try.match.found THEN Op("place", loc, try.match.word_n, try.pos)
     ELSE Op("blocked", loc, None, None)

\* The body of an iteration on the selected line loc, up to the assignments:
\* what the iteration does, and the word and the position it places.
\*   "blocked":  the sub-patterns are the Blocked sentinel;
\*   "complete": they are the Complete sentinel, or no sub-pattern matches a word;
\*   "place":    the first sub-pattern with a match, the word of the match, and
\*               the position of that sub-pattern (letter_seq[1]);
\*   "raise":    pattern generation raised ValueError on a strip without a letter.
Attempt(loc) ==
  LET letter_seqs == Subpatterns(loc)
      kind == Classify(letter_seqs)
      try == TrySeqs(letter_seqs, 1)
  IN IF kind = "Blocked" THEN Op("blocked", loc, None, None)
     ELSE IF kind = "Complete" THEN Op("complete", loc, None, None)
     ELSE IF try.match.raised THEN Op("raise", loc, None, None)
     ELSE IF try.match.found THEN Op("place", loc, try.match.word_n, try.pos)
     ELSE Op("complete", loc, None, None)

\* A variant of NextBlocked in which a placement leaves the set as it is.
NextBlockedKeepsOnPlace(did) ==
  IF did.op = "blocked" THEN currently_blocked \cup {did.loc} ELSE currently_blocked

\* A variant of NextBlocked in which a Blocked line is not recorded.
NextBlockedForgets(did) ==
  IF did.op = "place" THEN {} ELSE currently_blocked

\* currently_blocked after the iteration: the Blocked line added
\* (self.currently_blocked.add), the set cleared by a placement
NextBlocked(did) ==
  IF did.op = "place" THEN {}
  ELSE IF did.op = "blocked" THEN currently_blocked \cup {did.loc}
  ELSE currently_blocked

\* one iteration of fillout's loop in which next_selection draws a Location
Iterate ==
  /\ pc = "loop"
  /\ \E selection \in next_selection(currently_blocked) :
       /\ selection.code = 0
       /\ \E did \in {Attempt(selection.loc)} :
             /\ last' = did
             /\ IF did.op = "place"
                THEN \E p \in {place_word(did.word_index, did.loc, did.pos)} : Placed(p)
                ELSE /\ complete_indexes' =
                          IF did.op = "complete" THEN complete_indexes \cup {did.loc}
                          ELSE complete_indexes
                     /\ UNCHANGED <<available_words, placed_words, nb_placed_words, grid,
                                    available_wordseq, empty_indexes>>
             /\ currently_blocked' = NextBlocked(did)
             /\ pc' = IF did.op = "raise" THEN "raised" ELSE pc
             /\ err' = IF did.op = "raise" THEN "ValueError" ELSE err
  /\ UNCHANGED <<grid_size, words, min_size_word, stop>>

Next ==
  \/ SeedPlace
  \/ SeedRaise
  \/ FilloutStop
  \/ Iterate

Spec == Init /\ [][Next]_vars

(***************************************************************************)
(* Fill runs on a list of MaxShortWords words of two letters (the same     *)
(* text, as separate candidates): the loop can place several words, and    *)
(* lines found Blocked lie between placements.                             *)
(***************************************************************************)

ShortPool ==
  << <<"b", "a">> >>

InitShort == \E ws \in ListsOfLen(ShortPool, MaxShortWords) : Construct(GridSize, ws) /\ pc = "new"

SpecShort == InitShort /\ [][Next]_vars

(***************************************************************************)
(* Direct use of the puzzle: place_word called by a client, as the tests   *)
(* do, with an index of available_words and a line and offset at which     *)
(* the word lies inside the grid.                                          *)
(***************************************************************************)

PlaceLists == UNION {ListsOfLen(PlacePool, n) : n \in 1..MaxPlaceWords}

InitPlace == \E ws \in PlaceLists : Construct(GridSize, ws) /\ pc = "api"

\* place_word(word_index, loc, pos) for a word that is not placed yet
PlaceWord ==
  /\ pc = "api"
  /\ \E word_index \in 0..(Len(available_words) - 1) :
       /\ available_words[word_index + 1].direction = None
       /\ \E loc \in Locations :
            \E pos \in 0..(grid_size - available_words[word_index + 1].size) :
              /\ \E p \in {place_word(word_index, loc, pos)} : Placed(p)
              /\ last' = Op("place", loc, word_index, pos)
  /\ UNCHANGED <<grid_size, words, min_size_word, currently_blocked, pc, err, stop>>

NextPlace == PlaceWord

SpecPlace == InitPlace /\ [][NextPlace]_vars

(***************************************************************************)
(* Direct use of the puzzle with a word of one letter among the candidates *)
(* (Puzzle.__init__ keeps every word that is not longer than the grid).    *)
(***************************************************************************)

OneLetterPool ==
  << <<"a">>,
     <<"b", "a">> >>

InitPlaceOne ==
  \E ws \in UNION {ListsOfLen(OneLetterPool, n) : n \in 1..MaxPlaceWords} :
    Construct(GridSize, ws) /\ pc = "api"

SpecPlaceOne == InitPlaceOne /\ [][NextPlace]_vars

(***************************************************************************)
(* Direct use of the puzzle with a word placed a second time: place_word   *)
(* has no guard against it.  The puzzle holds one word.                    *)
(***************************************************************************)

InitReplace == \E ws \in ListsOfLen(PlacePool, 1) : Construct(GridSize, ws) /\ pc = "api"

\* place_word(word_index, loc, pos) for a word that is placed already: the word is
\* positioned, recorded, counted and written in the grid, then
\* available_wordseq.index raises ValueError, the tag of the word being gone
PlaceAgain ==
  /\ pc = "api"
  /\ \E word_index \in 0..(Len(available_words) - 1) :
       /\ available_words[word_index + 1].direction # None
       /\ \E loc \in Locations :
            \E pos \in 0..(grid_size - available_words[word_index + 1].size) :
              /\ \E p \in {place_word(word_index, loc, pos)} : p.raised /\ Placed(p)
              /\ last' = Op("place", loc, word_index, pos)
  /\ pc' = "raised"
  /\ err' = "ValueError"
  /\ UNCHANGED <<grid_size, words, min_size_word, currently_blocked, stop>>

NextReplace ==
  \/ PlaceWord
  \/ PlaceAgain

SpecReplace == InitReplace /\ [][NextReplace]_vars

(***************************************************************************)
(* The classification of a line on its own: the entire pattern of a line   *)
(* of a grid of 2 .. MaxLine cells and the length of the shortest word are *)
(* drawn, and the line is split in sub-patterns and classified.            *)
(***************************************************************************)

InitLine ==
  /\ grid_size \in 2..MaxLine
  /\ min_size_word \in 2..(MaxLine \div 2)
  /\ min_size_word <= grid_size
  /\ \E line \in [1..grid_size -> {empty_marker, filled_marker, "A"}] :
       last = [op |-> "line", line |-> line, letter_seqs |-> <<>>, kind |-> ""]
  /\ words = <<>>
  /\ available_words = <<>>
  /\ available_wordseq = <<>>
  /\ placed_words = [l \in Locations |-> <<>>]
  /\ nb_placed_words = 0
  /\ grid = [r \in 0..(grid_size - 1) |-> [c \in 0..(grid_size - 1) |-> empty_marker]]
  /\ complete_indexes = {}
  /\ empty_indexes = Locations
  /\ currently_blocked = {}
  /\ pc = "line"
  /\ err = ""
  /\ stop = 0

\* the sub-patterns of the drawn line and what fillout reads in them
ClassifyLine ==
  /\ pc = "line"
  /\ pc' = "classified"
  /\ last' = [last EXCEPT !.letter_seqs = SubpatternsOf(last.line),
                          !.kind = Classify(SubpatternsOf(last.line))]
  /\ UNCHANGED <<grid_size, words, available_words, available_wordseq, min_size_word,
                 placed_words, nb_placed_words, grid, complete_indexes, empty_indexes,
                 currently_blocked, err, stop>>

NextLine == ClassifyLine

SpecLine == InitLine /\ [][NextLine]_vars

(***************************************************************************)
(* The Pattern Codec on its own: count_letters, get_regex and gen_patterns  *)
(* called with a strip of empty markers and letters, as the tests do; the  *)
(* expression of get_regex is searched in the encoding of one word.        *)
(***************************************************************************)

CodecStrips == UNION {[1..n -> {empty_marker, "A", "B"}] : n \in 1..MaxCodecStrip}

CodecWords == UNION {[1..n -> {"A", "B"}] : n \in 1..MaxCodecWord}

NoCount == [raised |-> FALSE, nb |-> 0, first |-> None, last |-> None]

NoRegex == [raised |-> FALSE, lead |-> 0, core |-> <<>>, trail |-> 0]

\* the record of a call of the codec: the function, its arguments and what it
\* returned or yielded
CodecCall(op, letter_seq, pos, min_size, word, count, regex, match, items) ==
  [op |-> op, letter_seq |-> letter_seq, pos |-> pos, min_size |-> min_size, word |-> word,
   count |-> count, regex |-> regex, match |-> match, items |-> items]

InitCodec ==
  /\ grid_size = GridSize
  /\ words = <<>>
  /\ available_words = <<>>
  /\ available_wordseq = <<>>
  /\ min_size_word = grid_size
  /\ placed_words = [l \in Locations |-> <<>>]
  /\ nb_placed_words = 0
  /\ grid = [r \in 0..(grid_size - 1) |-> [c \in 0..(grid_size - 1) |-> empty_marker]]
  /\ complete_indexes = {}
  /\ empty_indexes = Locations
  /\ currently_blocked = {}
  /\ pc = "codec"
  /\ err = ""
  /\ stop = 0
  /\ last = CodecCall("init", <<>>, 0, 0, <<>>, NoCount, NoRegex, NoMatch, <<>>)

\* count_letters(s)
CallCountLetters ==
  /\ pc = "codec"
  /\ pc' = "called"
  /\ \E s \in CodecStrips :
       last' = CodecCall("count_letters", s, 0, 0, <<>>, count_letters(s), NoRegex, NoMatch, <<>>)
  /\ UNCHANGED <<grid_size, words, available_words, available_wordseq, min_size_word,
                 placed_words, nb_placed_words, grid, complete_indexes, empty_indexes,
                 currently_blocked, err, stop>>

\* get_regex(letter_seq, '-'), and re.search of the expression in the encoding of
\* the word w followed by the tag of a next word
CallGetRegex ==
  /\ pc = "codec"
  /\ pc' = "called"
  /\ \E s \in CodecStrips : \E w \in CodecWords :
       \E regex \in {get_regex(s)} :
         last' = CodecCall("get_regex", s, 0, 0, w, NoCount, regex,
                           IF regex.raised THEN RaisedMatch
                           ELSE re_search(regex, Segment(0, w) \o Segment(1, <<>>)),
                           <<>>)
  /\ UNCHANGED <<grid_size, words, available_words, available_wordseq, min_size_word,
                 placed_words, nb_placed_words, grid, complete_indexes, empty_indexes,
                 currently_blocked, err, stop>>

\* list(gen_patterns(letter_seq, pos, min_size)), up to the error if it raises
CallGenPatterns ==
  /\ pc = "codec"
  /\ pc' = "called"
  /\ \E s \in CodecStrips : \E pos \in 0..MaxCodecPos : \E min_size \in 1..MaxCodecMinSize :
       last' = CodecCall("gen_patterns", s, pos, min_size, <<>>, NoCount, NoRegex, NoMatch,
                         gen_patterns(s, pos, min_size))
  /\ UNCHANGED <<grid_size, words, available_words, available_wordseq, min_size_word,
                 placed_words, nb_placed_words, grid, complete_indexes, empty_indexes,
                 currently_blocked, err, stop>>

NextCodec ==
  \/ CallCountLetters
  \/ CallGetRegex
  \/ CallGenPatterns

SpecCodec == InitCodec /\ [][NextCodec]_vars

(***************************************************************************)
(* Properties                                                              *)
(***************************************************************************)

\* the placed words, as indexes of available_words
PlacedIdx == {i \in 0..(Len(available_words) - 1) : available_words[i + 1].direction # None}

WordAt(i) == available_words[i + 1]

\* the grid cell, as <<row, col>>, of the k-th letter (k from 0) of a placed word
CellOf(w, k) == IF w.direction = 0 THEN <<w.row, w.col + k>> ELSE <<w.row + k, w.col>>

\* the cells of a placed word
CellsOf(w) == {CellOf(w, k) : k \in 0..(w.size - 1)}

IsLetterCell(r, c) == grid[r][c] # empty_marker

\* C1: every placed word reads in the grid: the cell of its k-th letter holds
\* canonical[k], for every placed word and every k, after the seed and any
\* number of iterations of the fill loop.
C1_PlacedWordsReadInGrid ==
  \A i \in PlacedIdx : \A k \in 0..(WordAt(i).size - 1) :
    grid[CellOf(WordAt(i), k)[1]][CellOf(WordAt(i), k)[2]] = WordAt(i).canonical[k + 1]

\* C2: two placed words of different direction that share a cell have the same
\* letter there (letter_at of both).
C2_CrossingLettersAgree ==
  \A i \in PlacedIdx : \A j \in PlacedIdx :
    WordAt(i).direction # WordAt(j).direction =>
      \A cell \in CellsOf(WordAt(i)) \cap CellsOf(WordAt(j)) :
        letter_at(WordAt(i), cell[1], cell[2]) = letter_at(WordAt(j), cell[1], cell[2])

\* C3: two orthogonally adjacent cells that both hold a letter lie in the span of
\* one placed word.
C3_AdjacentLettersShareWord ==
  \A r \in 0..(grid_size - 1) : \A c \in 0..(grid_size - 1) :
    /\ (c + 1 < grid_size /\ IsLetterCell(r, c) /\ IsLetterCell(r, c + 1)) =>
         \E i \in PlacedIdx : {<<r, c>>, <<r, c + 1>>} \subseteq CellsOf(WordAt(i))
    /\ (r + 1 < grid_size /\ IsLetterCell(r, c) /\ IsLetterCell(r + 1, c)) =>
         \E i \in PlacedIdx : {<<r, c>>, <<r + 1, c>>} \subseteq CellsOf(WordAt(i))

\* C4: once the fill loop has left its loop it has stopped by one of the three
\* stop conditions of next_selection (-2 NoMoreWords, -1 AllCompletedOrEmpty,
\* -3 AllBlocked); it ends in no other way.
C4_FillLoopEndsByStopCondition ==
  (nb_placed_words > 0 /\ pc # "loop") => (pc = "stopped" /\ stop \in {-2, -1, -3})

RECURSIVE RemainingFrom(_)
\* the segments [i]CANONICAL of the words i, i + 1, ... that are not placed, in
\* the order of their indexes
RemainingFrom(i) ==
  IF i >= Len(available_words) THEN <<>>
  ELSE (IF i \in PlacedIdx THEN <<>>
        ELSE <<"[">> \o IntToStr(i) \o <<"]">> \o WordAt(i).canonical)
       \o RemainingFrom(i + 1)

\* C5: available_wordseq is the initial stream without the segments of the
\* placed words: each word that is not placed is there once, under its index,
\* in the original order, and no placed word is there.
C5_StreamIsInitialMinusPlaced ==
  available_wordseq = RemainingFrom(0)

\* a word in the middle of the stream is placed and the words around it are not
C5_Witness ==
  /\ pc = "loop"
  /\ Len(available_words) = 3
  /\ PlacedIdx = {1}

\* the strips of 2 .. MaxStrip cells of empty markers and letters
Strips ==
  UNION {[1..n -> {empty_marker, "A", "B"}] : n \in 2..MaxStrip}

FindMatch(strip) == find_matches(strip, available_wordseq, min_size_word)

\* C6: no strip makes find_matches return the index of a word that was placed
\* (and so removed from available_wordseq).
C6_RemovedWordNeverFound ==
  \A strip \in Strips :
    FindMatch(strip).found => FindMatch(strip).word_n \notin PlacedIdx

\* a word is placed and find_matches still has a hit for some strip
C6_Witness ==
  /\ PlacedIdx # {}
  /\ \E strip \in Strips : FindMatch(strip).found

\* the strip has a letter and its pattern generation raises nothing
Searchable(strip) ==
  \A k \in 1..Len(gen_patterns(strip, 0, min_size_word)) :
    ~gen_patterns(strip, 0, min_size_word)[k].raised

\* a word that is not placed matches one of the expressions of the strip
SomeWordMatches(strip) ==
  \E i \in (0..(Len(available_words) - 1)) \ PlacedIdx :
    \E k \in 1..Len(gen_patterns(strip, 0, min_size_word)) :
      BodyMatches(gen_patterns(strip, 0, min_size_word)[k].regex, WordAt(i).canonical)

\* C7: find_matches has a hit for a strip exactly when a word still in
\* available_wordseq matches one of the strip's expressions, wherever the
\* segment of that word is in the stream.
C7_HitIffSomeWordMatches ==
  \A strip \in Strips :
    Searchable(strip) => (FindMatch(strip).found <=> SomeWordMatches(strip))

\* the input words that are not longer than the grid is wide, in input order
Kept == SelectSeq(words, LAMBDA w : Len(w) <= grid_size)

\* order is a stable descending-length arrangement of Kept: position k of the
\* list holds Kept[order[k]], a longer word comes first, and of two words of one
\* length the one that is first in the input comes first
IsStableDescending(order) ==
  /\ \A k, l \in DOMAIN order : k # l => order[k] # order[l]
  /\ \A k, l \in DOMAIN order :
       k < l => \/ Len(Kept[order[k]]) > Len(Kept[order[l]])
                \/ (Len(Kept[order[k]]) = Len(Kept[order[l]]) /\ order[k] < order[l])

\* C8: available_words holds exactly the input words of length <= grid_size, by
\* descending length and in input order among equal lengths, canonical is the
\* uppercased text, the encoding before any placement is the concatenation of
\* [i]CANONICAL in that order, and a word longer than grid_size is neither in
\* the encoding nor placed.
C8_ConstructionFiltersSortsEncodes ==
  /\ Len(available_words) = Len(Kept)
  /\ \E order \in [1..Len(Kept) -> 1..Len(Kept)] :
       /\ IsStableDescending(order)
       /\ \A k \in 1..Len(Kept) :
            /\ available_words[k].word = Kept[order[k]]
            /\ available_words[k].canonical = Upper(Kept[order[k]])
            /\ \A c \in 1..Len(Kept[order[k]]) : available_words[k].canonical[c] \in {"A", "B"}
  /\ (nb_placed_words = 0 => available_wordseq = RemainingFrom(0))
  /\ \A i \in PlacedIdx : WordAt(i).size <= grid_size
  /\ \A k \in 1..Len(words) :
       Len(words[k]) > grid_size => Find(available_wordseq, Upper(words[k]), 0) = -1

\* the input holds a word longer than the grid and a word that fits, and the
\* word that fits has been placed
C8_Witness ==
  /\ Len(words) = 2
  /\ Len(available_words) = 1
  /\ nb_placed_words = 1

\* the line of the grid at loc, by offset
Line(loc, c) == IF loc.direction = 0 THEN grid[loc.index][c] ELSE grid[c][loc.index]

EntirePattern(loc) == _get_entirepattern(grid, placed_words, available_words, loc)

\* C9 as stated: after place_word(word, loc, pos), the entire pattern of loc shows
\* the letters of the word at the offsets pos .. pos + size - 1.
C9_EntirePatternShowsLetters ==
  last.op = "place" =>
    \A k \in 0..(WordAt(last.word_index).size - 1) :
      EntirePattern(last.loc)[last.pos + k + 1] = WordAt(last.word_index).canonical[k + 1]

\* C9, amended: after place_word(word, loc, pos), the line of the grid at loc
\* holds the letters of the word at the offsets pos .. pos + size - 1, and the
\* entire pattern of loc shows the filled marker at those offsets.
C9_GridLineShowsLetters ==
  last.op = "place" =>
    \A k \in 0..(WordAt(last.word_index).size - 1) :
      /\ Line(last.loc, last.pos + k) = WordAt(last.word_index).canonical[k + 1]
      /\ EntirePattern(last.loc)[last.pos + k + 1] = filled_marker

\* a word has just been placed away from the start of its line
C9_Witness ==
  /\ last.op = "place"
  /\ last.pos > 0

\* the offset of the first letter of a placed word in its line
StartOf(w) == IF w.direction = 0 THEN w.col ELSE w.row

\* the cells of the line loc within one cell of a word placed on loc
PaddedCells(loc) ==
  {c \in 0..(grid_size - 1) :
     \E k \in 1..Len(placed_words[loc]) :
       /\ StartOf(WordAt(placed_words[loc][k])) - 1 <= c
       /\ c <= StartOf(WordAt(placed_words[loc][k])) + WordAt(placed_words[loc][k]).size}

\* a line next to loc holds a letter at offset c
LetterBeside(loc, c) ==
  \E index \in {loc.index - 1, loc.index + 1} \cap (0..(grid_size - 1)) :
    Line(Location(loc.direction, index), c) # empty_marker

\* C10: the entire pattern of a line shows the filled marker at every cell within
\* one cell of a word placed on that line, whatever the grid holds there; a cell
\* that is in no such span and has no letter beside it in a neighbouring line is
\* shown as the grid holds it, the empty marker or its letter.
C10_PaddedSpanIsFilled ==
  \A loc \in Locations : \A c \in 0..(grid_size - 1) :
    /\ c \in PaddedCells(loc) => EntirePattern(loc)[c + 1] = filled_marker
    /\ (c \notin PaddedCells(loc) /\ ~LetterBeside(loc, c)) =>
         (EntirePattern(loc)[c + 1] = Line(loc, c) /\ Line(loc, c) # filled_marker)

\* a word lies on a line with a free cell before it and after it, and the line
\* has a cell outside the padded span with no letter beside it
C10_Witness ==
  \E loc \in Locations :
    /\ \E k \in 1..Len(placed_words[loc]) :
         /\ StartOf(WordAt(placed_words[loc][k])) > 0
         /\ StartOf(WordAt(placed_words[loc][k])) + WordAt(placed_words[loc][k]).size < grid_size
    /\ \E c \in 0..(grid_size - 1) : c \notin PaddedCells(loc) /\ ~LetterBeside(loc, c)

\* the cells of the line loc at an offset that a word placed on the line before
\* loc or on the line after loc covers with a letter of its own
AdjacentSpanCells(loc) ==
  {c \in 0..(grid_size - 1) :
     \E index \in {loc.index - 1, loc.index + 1} \cap (0..(grid_size - 1)) :
       \E k \in 1..Len(placed_words[Location(loc.direction, index)]) :
         /\ StartOf(WordAt(placed_words[Location(loc.direction, index)][k])) <= c
         /\ c < StartOf(WordAt(placed_words[Location(loc.direction, index)][k]))
                  + WordAt(placed_words[Location(loc.direction, index)][k]).size}

\* C11 as stated: the entire pattern of a line shows the filled marker at every
\* cell whose offset is in the span of a word placed on a neighbouring parallel
\* line.
C11_AdjacentSpanIsFilled ==
  \A loc \in Locations : \A c \in AdjacentSpanCells(loc) :
    EntirePattern(loc)[c + 1] = filled_marker

\* C11, amended: the entire pattern of a line shows the filled marker at every
\* empty cell whose offset is in the span of a word placed on a neighbouring
\* parallel line; a cell there that holds a letter and is outside the padded
\* spans of the line's own words is shown as its letter.
C11_EmptyCellInAdjacentSpanIsFilled ==
  \A loc \in Locations : \A c \in AdjacentSpanCells(loc) :
    /\ Line(loc, c) = empty_marker => EntirePattern(loc)[c + 1] = filled_marker
    /\ (Line(loc, c) # empty_marker /\ c \notin PaddedCells(loc)) =>
         EntirePattern(loc)[c + 1] # filled_marker

\* an empty cell of the second line lies beside a word placed on the first line
C11_Witness ==
  \E loc \in Locations : \E c \in AdjacentSpanCells(loc) :
    /\ loc.index = 1
    /\ placed_words[Location(loc.direction, 0)] # <<>>
    /\ placed_words[Location(loc.direction, 2)] = <<>>
    /\ Line(loc, c) = empty_marker

\* C12: a cell of a line that holds a letter and is outside the padded spans of
\* the words placed on that line is shown in the entire pattern as that letter,
\* also when a word of a neighbouring parallel line covers its offset.
C12_LetterCellIsReportedAsLetter ==
  \A loc \in Locations : \A c \in 0..(grid_size - 1) :
    (Line(loc, c) # empty_marker /\ c \notin PaddedCells(loc)) =>
      /\ EntirePattern(loc)[c + 1] = Line(loc, c)
      /\ EntirePattern(loc)[c + 1] \notin {empty_marker, filled_marker}

\* a letter outside the line's own padded spans lies beside a word of a
\* neighbouring parallel line
C12_Witness ==
  \E loc \in Locations : \E c \in AdjacentSpanCells(loc) :
    Line(loc, c) # empty_marker /\ c \notin PaddedCells(loc)

\* the maximal runs of cells of text that hold no filled marker, each with the
\* offset at which it starts
TrueSegments(text) ==
  {[s |-> Slice(text, i, j), pos |-> i] : <<i, j>> \in
     {ij \in (0..Len(text)) \X (0..Len(text)) :
        /\ ij[1] < ij[2]
        /\ \A c \in ij[1]..(ij[2] - 1) : text[c + 1] # filled_marker
        /\ (ij[1] = 0 \/ text[ij[1]] = filled_marker)
        /\ (ij[2] = Len(text) \/ text[ij[2] + 1] = filled_marker)}}

\* C13: the sub-patterns of a line are exactly the maximal segments of its entire
\* pattern without a filled marker that are at least min_size long, each with
\* the offset at which that segment starts, in an order of non-increasing length.
C13_SubpatternsAreSegmentsWithOffsets ==
  \A loc \in Locations :
    /\ {Subpatterns(loc)[k] : k \in 1..Len(Subpatterns(loc))}
         = {seg \in TrueSegments(EntirePattern(loc)) : Len(seg.s) >= min_size_word}
    /\ Len(Subpatterns(loc))
         = Cardinality({seg \in TrueSegments(EntirePattern(loc)) : Len(seg.s) >= min_size_word})
    /\ \A k \in 1..Len(Subpatterns(loc)) : \A l \in k..Len(Subpatterns(loc)) :
         Len(Subpatterns(loc)[k].s) >= Len(Subpatterns(loc)[l].s)

\* the segments of a line that a word can fit: at least min_size_word long
FittingSegments(line) == {seg \in TrueSegments(line) : Len(seg.s) >= min_size_word}

HasLetter(text) == \E c \in 1..Len(text) : text[c] \notin {empty_marker, filled_marker}

\* C14: a line is Complete when none of its segments is min_size long or longer,
\* Blocked when it has such segments and none of them holds a letter, and the
\* list of its segments otherwise; exactly one of the three.
C14_ClassificationIsOneOfThree ==
  pc = "classified" =>
    /\ last.kind = "Complete" <=> FittingSegments(last.line) = {}
    /\ last.kind = "Blocked" <=>
         /\ FittingSegments(last.line) # {}
         /\ \A seg \in FittingSegments(last.line) : ~HasLetter(seg.s)
    /\ last.kind = "Open" <=> \E seg \in FittingSegments(last.line) : HasLetter(seg.s)

CrossingLines(op) ==
  {Location(1 - op.loc.direction, i) :
     i \in op.pos..(op.pos + WordAt(op.word_index).size - 1)}

\* C16: place_word(word, loc, pos) takes out of empty_indexes the lines of the
\* other axis whose index is at a letter of the word, and nothing else: every
\* line of the word's own axis, loc included, stays if it was there.
C16_PlaceRemovesCrossingLinesOnly ==
  [][(pc = "api" /\ last'.op = "place")
     => /\ empty_indexes' = empty_indexes \ CrossingLines(last')
        /\ \A l \in empty_indexes : l.direction = last'.loc.direction => l \in empty_indexes']_vars

\* a word was placed away from the borders of its line: the lines that cross it
\* are out of empty_indexes, the lines at its margins and its own line are in
C16_Witness ==
  /\ last.op = "place"
  /\ nb_placed_words = 1
  /\ last.pos > 0
  /\ last.pos + WordAt(last.word_index).size < grid_size
  /\ last.loc \in empty_indexes
  /\ Location(1 - last.loc.direction, last.pos) \notin empty_indexes
  /\ Location(1 - last.loc.direction, last.pos - 1) \in empty_indexes

\* C17: complete_indexes only grows and empty_indexes only shrinks, over the
\* seed, the placements and the iterations of the fill loop.
C17_CompleteGrowsEmptyShrinks ==
  [][/\ complete_indexes \subseteq complete_indexes'
     /\ empty_indexes' \subseteq empty_indexes]_vars

\* two words are placed, lines are complete, and lines have left empty_indexes
C17_Witness ==
  /\ pc = "loop"
  /\ nb_placed_words >= 2
  /\ Cardinality(complete_indexes) >= 2
  /\ empty_indexes # Locations

\* C18: the line an iteration of the fill loop works on was, when it was
\* selected, neither in complete_indexes nor in empty_indexes.
C18_SelectedLineIsAvailable ==
  [][(pc = "loop" /\ last'.op \in {"blocked", "complete", "place", "raise"})
     => /\ last'.loc \notin complete_indexes
        /\ last'.loc \notin empty_indexes]_vars

\* a line was selected, and a word placed on it, while other lines were complete
\* and others empty
C18_Witness ==
  /\ pc = "loop"
  /\ last.op = "place"
  /\ complete_indexes # {}
  /\ empty_indexes # {}

SetCount(i) ==
  Cardinality({lk \in Locations \X (1..nb_placed_words) :
                 /\ lk[2] <= Len(placed_words[lk[1]])
                 /\ placed_words[lk[1]][lk[2]] = i})

\* C20: the placement fields of a word are set at most once, and they are all
\* unset or all set.
C20_PlacementSetOnce ==
  \A i \in 0..(Len(available_words) - 1) :
    /\ SetCount(i) <= 1
    /\ \/ WordAt(i).direction = None /\ WordAt(i).row = None /\ WordAt(i).col = None
       \/ WordAt(i).direction # None /\ WordAt(i).row # None /\ WordAt(i).col # None

\* the search of every sub-pattern of loc in available_wordseq ends without a hit
\* (and without an error)
NoSubpatternMatches(loc) ==
  \A k \in 1..Len(Subpatterns(loc)) :
    \E m \in {find_matches(Subpatterns(loc)[k].s, available_wordseq, min_size_word)} :
      ~m.found /\ ~m.raised

WindowLetters(s, a, b) == {i \in a..(b - 1) : IsWordChar(s[i + 1])}

RECURSIVE TrimmedWindows(_, _, _)
\* The sub-strips of s reached from its cells a .. b - 1 by trimming, any number
\* of times, the last letter with the cell before it (and the cells after it),
\* or the first letter with the cell after it (and the cells before it); as
\* pairs <<start, end>> of positions of s.
TrimmedWindows(s, a, b) ==
  {<<a, b>>} \cup
  (IF WindowLetters(s, a, b) = {} THEN {}
   ELSE LET right_end == SetMax(WindowLetters(s, a, b)) - 1
            left_start == SetMin(WindowLetters(s, a, b)) + 2
        IN TrimmedWindows(s, a, IF right_end < a THEN a ELSE right_end)
           \cup TrimmedWindows(s, IF left_start > b THEN b ELSE left_start, b))

\* the (expression, offset) pairs of the trimmed sub-strips of s that hold a
\* letter, at least min_size cells and at least 2 cells
ExpectedPairs(s, pos, min_size) ==
  {[regex |-> get_regex(Slice(s, w[1], w[2])), pos |-> pos + w[1]] :
     w \in {x \in TrimmedWindows(s, 0, Len(s)) :
              /\ x[2] - x[1] >= min_size
              /\ x[2] - x[1] >= 2
              /\ WindowLetters(s, x[1], x[2]) # {}}}

\* the (expression, offset) pairs a call of gen_patterns has yielded
YieldedPairs(items) ==
  {[regex |-> items[k].regex, pos |-> items[k].pos] :
     k \in {j \in 1..Len(items) : ~items[j].raised}}

\* C22: gen_patterns(strip, pos, min_size), for a strip of two cells or more that
\* holds a letter, yields the expression of the whole strip first, with offset
\* pos, and the pairs it yields are the expressions of the sub-strips reached by
\* trimming that have at least min_size and at least 2 cells, each with pos
\* plus the start of the sub-strip in the strip; it raises nothing.
C22_GenPatternsYieldsTrimmedSubstrips ==
  (last.op = "gen_patterns" /\ Len(last.letter_seq) >= 2
     /\ LetterPositions(last.letter_seq) # {})
  => /\ \A k \in 1..Len(last.items) : ~last.items[k].raised
     /\ last.items # <<>> =>
          last.items[1] = [raised |-> FALSE, regex |-> get_regex(last.letter_seq), pos |-> last.pos]
     /\ YieldedPairs(last.items) = ExpectedPairs(last.letter_seq, last.pos, last.min_size)

\* the strips of MaxPureStrip cells of empty markers and letters
PureStrips == [1..MaxPureStrip -> {empty_marker, "A", "B"}]

\* what a call gen_patterns(s, pos, min_size) made in the current state yields,
\* for every s, pos and min_size
GenPatternsTable ==
  [s \in PureStrips, pos \in 0..MaxCodecPos, min_size \in 1..MaxCodecMinSize |->
     [pairs |-> YieldedPairs(gen_patterns(s, pos, min_size)),
      raises |-> \E k \in 1..Len(gen_patterns(s, pos, min_size)) :
                   gen_patterns(s, pos, min_size)[k].raised]]

LaidAt(strip, w, o) ==
  /\ o >= 0
  /\ o + Len(w) <= Len(strip)
  /\ \A i \in LetterPositions(strip) :
       /\ o <= i
       /\ i < o + Len(w)
       /\ w[i - o + 1] = strip[i + 1]

\* C24: for a strip with a letter and a word, the word matches get_regex(strip)
\* exactly when it can be laid in the strip at some offset so that it covers
\* every letter of the strip with that same letter; a word longer than the
\* strip, or one that leaves out the first or the last letter, does not match.
C24_MatchIffWordLaysOverLetters ==
  (last.op = "get_regex" /\ ~last.regex.raised)
  => /\ last.match.found <=>
          \E o \in 0..Len(last.letter_seq) : LaidAt(last.letter_seq, last.word, o)
     /\ last.match.found =>
          /\ last.match.matched_word = last.word
          /\ Len(last.word) <= Len(last.letter_seq)
          /\ Len(last.word) >= Len(last.regex.core)

\* a word shorter than the strip matches the expression of a strip with two
\* letters and empty cells before, between and after them
C24_Witness ==
  /\ last.op = "get_regex"
  /\ last.match.found
  /\ Len(last.word) < Len(last.letter_seq)
  /\ last.regex.lead > 0
  /\ last.regex.trail > 0
  /\ Cardinality(LetterPositions(last.letter_seq)) = 2
  /\ \E k \in 1..Len(last.regex.core) : last.regex.core[k] = "?"

\* the positions of the strip that do not hold the empty marker
NonEmptyCells(strip) == {i \in 0..(Len(strip) - 1) : strip[i + 1] # empty_marker}

\* C25: count_letters(strip) raises ValueError exactly when the strip holds no
\* letter, and otherwise returns the number of letter cells and the positions of
\* the first and of the last letter; get_regex raises on a strip of empty
\* markers only, and gen_patterns raises on it before it yields anything,
\* whatever min_size is.
C25_NoLettersErrorIffNoLetter ==
  /\ last.op = "count_letters" =>
       /\ last.count.raised <=> NonEmptyCells(last.letter_seq) = {}
       /\ ~last.count.raised =>
            /\ last.count.nb = Cardinality(NonEmptyCells(last.letter_seq))
            /\ last.count.first \in NonEmptyCells(last.letter_seq)
            /\ last.count.last \in NonEmptyCells(last.letter_seq)
            /\ \A i \in NonEmptyCells(last.letter_seq) :
                 last.count.first <= i /\ i <= last.count.last
  /\ (last.op = "get_regex" /\ NonEmptyCells(last.letter_seq) = {}) => last.regex.raised
  /\ (last.op = "gen_patterns" /\ NonEmptyCells(last.letter_seq) = {}) =>
       /\ Len(last.items) = 1
       /\ last.items[1].raised

\* count_letters was given a strip of several empty markers and raised
C25_Witness ==
  /\ last.op = "count_letters"
  /\ Len(last.letter_seq) >= 2
  /\ NonEmptyCells(last.letter_seq) = {}
  /\ last.count.raised

\* A call of _get_entirepattern(loc) in the current state: the function holds no
\* raise statement, it returns the strip it has computed.
EntirePatternCall(loc) == [raised |-> FALSE, pattern |-> EntirePattern(loc)]

\* every cell of the strip holds the marker
MadeOnlyOf(strip, marker) == \A k \in 1..Len(strip) : strip[k] = marker

\* C26: once a word is placed, entire_pattern(loc) fails exactly when the strip it
\* has computed is made of empty markers only or of filled markers only, and
\* returns the strip otherwise.
C26_DegenerateLineFails ==
  nb_placed_words > 0 =>
    \A loc \in Locations :
      EntirePatternCall(loc).raised <=>
        \/ MadeOnlyOf(EntirePatternCall(loc).pattern, empty_marker)
        \/ MadeOnlyOf(EntirePatternCall(loc).pattern, filled_marker)

\* C27: no iteration of the fill loop raises the ValueError of count_letters: a
\* segment without a letter among the sub-patterns of the selected line is not
\* given to find_matches.
C27_FillLoopNeverRaisesNoLetters ==
  ~(pc = "raised" /\ err = "ValueError")

\* C28: on a puzzle with a candidate word (fewer than 5 included) the seed step
\* raises nothing and places exactly one word, one of the 5 longest, on a line
\* and at an offset at which all its cells are inside the grid.
C28_SeedPlacesOneWordInsideGrid ==
  (Len(available_words) >= 1 /\ pc # "new")
  => /\ ~(pc = "raised" /\ err = "IndexError")
     /\ last.op = "seed" =>
          /\ nb_placed_words = 1
          /\ PlacedIdx = {last.word_index}
          /\ last.word_index \in 0..4
          /\ \A k \in 0..(WordAt(last.word_index).size - 1) :
               /\ CellOf(WordAt(last.word_index), k)[1] \in 0..(grid_size - 1)
               /\ CellOf(WordAt(last.word_index), k)[2] \in 0..(grid_size - 1)

\* the lengths of the candidate words that are not placed
RemainingLengths == {WordAt(i).size : i \in (0..(Len(available_words) - 1)) \ PlacedIdx}

\* C29: during a fill run, while a candidate word remains, min_size_word is the
\* length of the shortest candidate word that is not placed.
C29_MinSizeIsShortestRemaining ==
  (pc \in {"loop", "stopped"} /\ RemainingLengths # {})
  => min_size_word = SetMin(RemainingLengths)

\* what holds of currently_blocked in a state of the fill loop: it is empty
\* after the seed and after a placement, each of its lines is Blocked, and the
\* line of an iteration that placed nothing is in it exactly if it is Blocked
BlockedSetIsCurrent ==
  (pc \in {"loop", "stopped", "raised"} /\ nb_placed_words > 0)
  => /\ last.op \in {"seed", "place"} => currently_blocked = {}
     /\ \A l \in currently_blocked : Classify(Subpatterns(l)) = "Blocked"
     /\ (last.op = "complete" \/ (last.op = "raise" /\ err = "ValueError"))
          => Classify(Subpatterns(last.loc)) # "Blocked"

NearLines(loc) ==
  {l \in Locations : l.direction = loc.direction
                     /\ l.index \in {loc.index - 1, loc.index, loc.index + 1}}

SomeRemainingWordFits(s) ==
  /\ HasLetter(s)
  /\ \E i \in (0..(Len(available_words) - 1)) \ PlacedIdx :
       \E o \in 0..Len(s) : LaidAt(s, WordAt(i).canonical, o)

\* C32: no candidate word that is not placed fits a sub-pattern of a line of
\* complete_indexes, in the grid as it is now.
C32_CompleteLineFitsNoWord ==
  pc \in {"loop", "stopped"} =>
    \A l \in complete_indexes :
      \A k \in 1..Len(Subpatterns(l)) : ~SomeRemainingWordFits(Subpatterns(l)[k].s)

\* the length of the sub-strip an expression was built from
StripLenOf(regex) == regex.lead + Len(regex.core) + regex.trail

\* C33: gen_patterns yields its expressions by non-increasing length of their
\* sub-strips: the whole strip first, and no expression of a longer sub-strip
\* after the expression of a shorter one.
C33_PatternsLongestFirst ==
  last.op = "gen_patterns" =>
    \A j, k \in 1..Len(last.items) :
      (j < k /\ ~last.items[j].raised /\ ~last.items[k].raised)
      => StripLenOf(last.items[j].regex) >= StripLenOf(last.items[k].regex)

\* C34: the entire pattern of a line shows the empty marker at a cell only if
\* neither neighbouring line of the same axis holds a letter at that offset,
\* for the lines 0, 1, grid_size - 2 and grid_size - 1 as for the others.
C34_EmptyCellHasNoLetterBeside ==
  \A loc \in Locations : \A c \in 0..(grid_size - 1) :
    EntirePattern(loc)[c + 1] = empty_marker => ~LetterBeside(loc, c)

(***************************************************************************)
(* place_first_word called with arguments.  An argument that is not given  *)
(* is None (NoLoc for the line).  The calls drawn give an offset whenever  *)
(* they give a line, and an offset at which the word placed fits.          *)
(***************************************************************************)

InitFirst == \E ws \in WordLists : Construct(GridSize, ws) /\ pc = "api"

\* the arguments of a call of place_first_word
FirstArgs ==
  {a \in [word_index : {None} \cup (0..(Len(available_words) - 1)),
          loc : {NoLoc} \cup Locations,
          pos : {None} \cup (0..(grid_size - 1))] :
     a.loc # NoLoc => a.pos # None}

\* `if not word_index`: the index is drawn in 0..4 when it is None, and when it is 0
FirstIndexes(a) == IF a.word_index = None \/ a.word_index = 0 THEN 0..4 ELSE {a.word_index}

\* `if not loc`: the line is drawn when it is not given
FirstLocs(a) == IF a.loc = NoLoc THEN Locations ELSE {a.loc}

\* `if not loc`: the offset is drawn with the line, whether or not one is given
FirstOffsets(a, first_w_len) == IF a.loc = NoLoc THEN 0..(grid_size - first_w_len) ELSE {a.pos}

FirstCall(op, loc, word_index, pos, a) ==
  [op |-> op, loc |-> loc, word_index |-> word_index, pos |-> pos, args |-> a]

\* place_first_word(word_index, loc, pos) on a puzzle with no placed word
PlaceFirstWord ==
  /\ pc = "api"
  /\ nb_placed_words = 0
  /\ \E a \in FirstArgs :
       \E word_index \in FirstIndexes(a) :
         /\ word_index < Len(available_words)
         /\ \E loc \in FirstLocs(a) :
              \E pos \in FirstOffsets(a, available_words[word_index + 1].size) :
                /\ pos + available_words[word_index + 1].size <= grid_size
                /\ \E p \in {place_word(word_index, loc, pos)} : Placed(p)
                /\ last' = FirstCall("first", loc, word_index, pos, a)
  /\ UNCHANGED <<grid_size, words, min_size_word, currently_blocked, pc, err, stop>>

\* place_first_word(word_index, loc, pos): the index drawn in 0..4 is not an index
\* of available_words
PlaceFirstWordRaise ==
  /\ pc = "api"
  /\ nb_placed_words = 0
  /\ \E a \in FirstArgs :
       \E word_index \in FirstIndexes(a) :
         /\ word_index >= Len(available_words)
         /\ last' = FirstCall("raise", NoLoc, word_index, None, a)
  /\ pc' = "raised"
  /\ err' = "IndexError"
  /\ UNCHANGED <<grid_size, words, available_words, available_wordseq, min_size_word, placed_words,
                 nb_placed_words, grid, complete_indexes, empty_indexes,
                 currently_blocked, stop>>

\* place_first_word(word_index, loc, pos) on a puzzle that has a placed word
PlaceFirstWordAgain ==
  /\ pc = "api"
  /\ nb_placed_words # 0
  /\ last' = Op("noop", NoLoc, None, None)
  /\ UNCHANGED <<grid_size, words, available_words, available_wordseq, min_size_word, placed_words,
                 nb_placed_words, grid, complete_indexes, empty_indexes,
                 currently_blocked, pc, err, stop>>

NextFirst ==
  \/ PlaceFirstWord
  \/ PlaceFirstWordRaise
  \/ PlaceFirstWordAgain

SpecFirst == InitFirst /\ [][NextFirst]_vars

\* C35: place_first_word on a puzzle with no placed word places exactly the word, the
\* line and the offset that were given, index 0 and offset 0 included, and raises
\* nothing when the index is given.
C35_FirstWordUsesGivenArguments ==
  /\ last.op = "first" =>
       /\ last.args.word_index # None => last.word_index = last.args.word_index
       /\ last.args.loc # NoLoc => last.loc = last.args.loc
       /\ last.args.pos # None => last.pos = last.args.pos
       /\ PlacedIdx = {last.word_index}
  /\ last.op = "raise" => last.args.word_index = None

\* the index of the line of a placed word
AxisLine(w) == IF w.direction = 0 THEN w.row ELSE w.col

\* C36: after the seed and any number of iterations of the fill loop, every placed word
\* lies inside the grid: its start offset is >= 0, its start plus its size is
\* <= grid_size, and the index of its line is in 0..grid_size-1.
C36_PlacedWordsInsideGrid ==
  pc \in {"loop", "stopped"} =>
    \A i \in PlacedIdx :
      /\ StartOf(WordAt(i)) >= 0
      /\ StartOf(WordAt(i)) + WordAt(i).size <= grid_size
      /\ AxisLine(WordAt(i)) \in 0..(grid_size - 1)

\* the fill loop has placed a second word, and a placed word ends on the last cell
\* of its line
C36_Witness ==
  /\ pc = "loop"
  /\ last.op = "place"
  /\ nb_placed_words = 2
  /\ \E i \in PlacedIdx : StartOf(WordAt(i)) + WordAt(i).size = grid_size

(***************************************************************************)
(* fillout on a puzzle that holds words already: place_word is called up   *)
(* to MaxPrefill times, then fillout runs; its call place_first_word()     *)
(* finds nb_placed_words # 0 and places nothing, and the loop goes on from *)
(* the words that are there.                                               *)
(***************************************************************************)

InitPrefill ==
  \E ws \in ListsOfLen(ShortPool, MaxShortWords) : Construct(GridSize, ws) /\ pc = "api"

\* place_word(word_index, loc, pos) before the fill run, for the first word that is
\* not placed yet
PrefillWord ==
  /\ pc = "api"
  /\ nb_placed_words < MaxPrefill
  /\ \E word_index \in {nb_placed_words} :
       /\ available_words[word_index + 1].direction = None
       /\ \E loc \in Locations :
            \E pos \in 0..(grid_size - available_words[word_index + 1].size) :
              /\ \E p \in {place_word(word_index, loc, pos)} : Placed(p)
              /\ last' = Op("place", loc, word_index, pos)
  /\ UNCHANGED <<grid_size, words, min_size_word, currently_blocked, pc, err, stop>>

\* fillout up to its loop, on a puzzle with a placed word: place_first_word() places
\* nothing, currently_blocked is the empty set
FilloutPlaced ==
  /\ pc = "api"
  /\ nb_placed_words # 0
  /\ pc' = "loop"
  /\ currently_blocked' = {}
  /\ last' = Op("noop", NoLoc, None, None)
  /\ UNCHANGED <<grid_size, words, available_words, available_wordseq, min_size_word, placed_words,
                 nb_placed_words, grid, complete_indexes, empty_indexes, err, stop>>

NextPrefill ==
  \/ PrefillWord
  \/ FilloutPlaced
  \/ FilloutStop
  \/ Iterate

SpecPrefill == InitPrefill /\ [][NextPrefill]_vars

\* the word i lies on the line loc with at least one cell between it and every other
\* word recorded under loc
SeparatedOn(loc, i) ==
  \A k \in 1..Len(placed_words[loc]) :
    placed_words[loc][k] # i =>
      \/ StartOf(WordAt(i)) + WordAt(i).size < StartOf(WordAt(placed_words[loc][k]))
      \/ StartOf(WordAt(placed_words[loc][k])) + WordAt(placed_words[loc][k]).size < StartOf(WordAt(i))

\* C37: a word placed by the fill loop neither overlaps nor abuts a word already
\* recorded under the same Location: their spans are disjoint and at least one cell
\* lies between them.
C37_LoopWordIsSeparatedOnItsLine ==
  (pc \in {"loop", "stopped"} /\ last.op = "place") => SeparatedOn(last.loc, last.word_index)

\* the fill loop has placed a word on a line that held a word already
C37_Witness ==
  /\ pc = "loop"
  /\ last.op = "place"
  /\ Len(placed_words[last.loc]) = 2
  /\ SeparatedOn(last.loc, last.word_index)

\* the cells of the placed word i that another placed word covers: the cells that
\* held a letter before i was placed, when i is the word placed last
CrossedCells(i) ==
  {cell \in CellsOf(WordAt(i)) : \E j \in PlacedIdx \ {i} : cell \in CellsOf(WordAt(j))}

\* C38: a word placed by the fill loop covers at least one cell that held a letter
\* before the placement.
C38_LoopWordCrossesALetter ==
  (pc \in {"loop", "stopped"} /\ last.op = "place") => CrossedCells(last.word_index) # {}

\* the number of Words recorded in placed_words, over every Location
RecordedWords ==
  Cardinality({lk \in Locations \X (1..nb_placed_words) : lk[2] <= Len(placed_words[lk[1]])})

\* the number of segments of available_wordseq: one per opening bracket
SegmentCount ==
  Cardinality({k \in 1..Len(available_wordseq) : available_wordseq[k] = "["})

\* C39: nb_placed_words is the number of Words recorded in placed_words;
\* nb_placed_words plus the number of segments of available_wordseq is the number
\* of candidate words; nb_placed_words is at most the number of candidates.
C39_PlacedCountMatchesIndexAndStream ==
  /\ nb_placed_words = RecordedWords
  /\ nb_placed_words + SegmentCount = Len(available_words)
  /\ nb_placed_words <= Len(available_words)

\* C40: gen_patterns(strip, pos, min_size) on a strip that holds a letter, two
\* adjacent letters included, raises no ValueError: none of its recursive calls is
\* on a trimmed sub-strip without a letter.
C40_GenPatternsNeverRaisesOnLetters ==
  (last.op = "gen_patterns" /\ NonEmptyCells(last.letter_seq) # {})
  => \A k \in 1..Len(last.items) : ~last.items[k].raised

====
